---------------------------- MODULE Spec2Model ----------------------------
(***************************************************************************)
(* A model of gplot++.h (version 0.5.0): the class Gnuplot, which drives a *)
(* gnuplot child process through a one-way pipe.                           *)
(*                                                                         *)
(* Text is modelled as a sequence of atoms.  An atom is a one-character    *)
(* string (digits, quote, blank, newline, punctuation) or a keyword that   *)
(* holds neither white space nor a quote.  Numbers are the doubles n/d,    *)
(* written <<n, d>> with d > 0; <<0, 0>> is NaN.  The vectors handed to    *)
(* the plot methods are std::vector<double>.                               *)
(*                                                                         *)
(* assert() is the <cassert> macro; the header does not define NDEBUG, so  *)
(* a failed assertion aborts the process.                                  *)
(***************************************************************************)
EXTENDS Integers, Sequences, FiniteSets, TLC

(***************************************************************************)
(* Text helpers.                                                           *)
(***************************************************************************)
NL == "\n"
SP == " "
QUOTE == "'"

RECURSIVE Concat(_)
\* The concatenation of a sequence of texts (operator<< chains).
Concat(ts) == IF ts = <<>> THEN <<>> ELSE Head(ts) \o Concat(Tail(ts))

DigitChar(k) == <<"0", "1", "2", "3", "4", "5", "6", "7", "8", "9">>[k + 1]

RECURSIVE Pow10(_)
Pow10(k) == IF k <= 0 THEN 1 ELSE 10 * Pow10(k - 1)

RECURSIVE NatDigits(_)
\* The decimal digits of a natural number, most significant first.
NatDigits(m) ==
  IF m < 10 THEN <<DigitChar(m)>>
  ELSE NatDigits(m \div 10) \o <<DigitChar(m % 10)>>

RECURSIVE PadDigits(_, _)
\* The decimal digits of m, left-padded with zeros to w digits.
PadDigits(m, w) ==
  IF w <= 0 THEN <<>>
  ELSE PadDigits(m \div 10, w - 1) \o <<DigitChar(m % 10)>>

RECURSIVE StripZeros(_)
\* Trailing "0" atoms removed (what %g does to a fraction).
StripZeros(ds) ==
  IF ds # <<>> /\ ds[Len(ds)] = "0"
  THEN StripZeros(SubSeq(ds, 1, Len(ds) - 1))
  ELSE ds

RECURSIVE Zeros(_)
Zeros(k) == IF k <= 0 THEN <<>> ELSE <<"0">> \o Zeros(k - 1)

(***************************************************************************)
(* Doubles.                                                                *)
(***************************************************************************)
NaN == <<0, 0>>
D(n) == <<n, 1>>
isnan(x) == x[2] = 0
Abs(n) == IF n < 0 THEN 0 - n ELSE n

RECURSIVE ExpUp(_, _, _)
\* The largest e >= 0 with 10^e * d <= n, for n >= d > 0.
ExpUp(n, d, e) == IF Pow10(e + 1) * d <= n THEN ExpUp(n, d, e + 1) ELSE e

RECURSIVE ExpDown(_, _, _)
\* The least k >= 1 with n * 10^k >= d, for 0 < n < d.
ExpDown(n, d, k) == IF n * Pow10(k) >= d THEN k ELSE ExpDown(n, d, k + 1)

\* floor(log10(n/d)) for n, d > 0.
Exp10(n, d) == IF n >= d THEN ExpUp(n, d, 0) ELSE 0 - ExpDown(n, d, 1)

\* num/den rounded to the nearest integer, ties to even (printf's rounding).
RoundHalfEven(num, den) ==
  LET q == num \div den
      r == num % den
  IN  IF 2 * r > den THEN q + 1
      ELSE IF 2 * r = den THEN q + (q % 2)
      ELSE q

\* The six significant digits of n/d > 0 and its decimal exponent:
\* [m |-> 100000..999999, x |-> exponent], n/d ~ m * 10^(x-5).
Sig6(n, d) ==
  LET e == Exp10(n, d)
      m == IF e <= 5 THEN RoundHalfEven(n * Pow10(5 - e), d)
                     ELSE RoundHalfEven(n, d * Pow10(e - 5))
  IN  IF m >= 1000000 THEN [m |-> 100000, x |-> e + 1] ELSE [m |-> m, x |-> e]

\* The text of a positive double under operator<< with the stream's default
\* format: %g with precision 6.
FmtPos(n, d) ==
  LET s == Sig6(n, d)
      ds == PadDigits(s.m, 6)
      frac(k) == StripZeros(SubSeq(ds, k + 1, 6))
      point(f) == IF f = <<>> THEN <<>> ELSE <<".">> \o f
  IN  IF s.x >= 0 /\ s.x < 6
        THEN SubSeq(ds, 1, s.x + 1) \o point(frac(s.x + 1))
      ELSE IF s.x < 0 /\ s.x >= 0 - 4
        THEN <<"0", ".">> \o Zeros((0 - s.x) - 1) \o StripZeros(ds)
      ELSE <<ds[1]>> \o point(frac(1))
             \o <<"e", IF s.x < 0 THEN "-" ELSE "+">>
             \o (IF Abs(s.x) < 10 THEN <<"0">> ELSE <<>>)
             \o NatDigits(Abs(s.x))

\* os << x for a double x.
FmtCalc(x) ==
  IF isnan(x) THEN <<"nan">>
  ELSE IF x[1] = 0 THEN <<"0">>
  ELSE IF x[1] < 0 THEN <<"-">> \o FmtPos(0 - x[1], x[2])
  ELSE FmtPos(x[1], x[2])

\* FmtCalc tabulated over the doubles the calls of the model pass most, so
\* that their text is computed once.
Tabulated == {D(n) : n \in (0 - 9)..99} \cup {D(1234567), <<0 - 5, 2>>, NaN}
FmtTable == [x \in Tabulated |-> FmtCalc(x)]
FmtDouble(x) == IF x \in Tabulated THEN FmtTable[x] ELSE FmtCalc(x)

\* os << n for an unsigned/int/size_t n >= 0.
FmtNat(n) == NatDigits(n)


\* os << n for an int n.
FmtInt(n) == IF n < 0 THEN <<"-">> \o NatDigits(0 - n) ELSE NatDigits(n)

(***************************************************************************)
(* The private helpers of class Gnuplot.                                   *)
(***************************************************************************)
\* An escape_quotes that copies its input.
escape_quotes_none(s) == s

RECURSIVE escape_quotes(_)
escape_quotes(s) ==
  IF s = <<>> THEN <<>>
  ELSE (IF Head(s) # QUOTE THEN <<Head(s)>> ELSE <<QUOTE, QUOTE>>)
         \o escape_quotes(Tail(s))

LineStyles ==
  {"DOTS", "LINES", "POINTS", "LINESPOINTS", "STEPS", "BOXES",
   "X_ERROR_BARS", "Y_ERROR_BARS", "XY_ERROR_BARS", "VECTORS"}

style_to_str(style) ==
  CASE style = "DOTS" -> "dots"
    [] style = "POINTS" -> "points"
    [] style = "LINESPOINTS" -> "linespoints"
    [] style = "STEPS" -> "steps"
    [] style = "BOXES" -> "boxes"
    [] style = "X_ERROR_BARS" -> "xerrorbars"
    [] style = "Y_ERROR_BARS" -> "yerrorbars"
    [] style = "XY_ERROR_BARS" -> "xyerrorbars"
    [] style = "VECTORS" -> "vectors"
    [] OTHER -> "lines"

\* The ranges as they were before 0.5.0: one automatic bound drops both.
format_range_naive(min, max) ==
  IF isnan(min) \/ isnan(max) THEN <<"[", "]">>
  ELSE <<"[">> \o FmtDouble(min) \o <<":">> \o FmtDouble(max) \o <<"]">>

format_range(min, max) ==
  IF isnan(min) /\ isnan(max) THEN <<"[", "]">>
  ELSE <<"[">>
         \o (IF isnan(min) THEN <<"*">> ELSE FmtDouble(min))
         \o <<":">>
         \o (IF isnan(max) THEN <<"*">> ELSE FmtDouble(max))
         \o <<"]">>

(***************************************************************************)
(* The state of one Gnuplot object and of the process that owns it.        *)
(***************************************************************************)
VARIABLES
  connection,       \* the FILE* member: "FILE" (an open pipe) or "nullptr"
  stream_buf,       \* text written to the FILE and not yet flushed
  delivered,        \* text the last call flushed into gnuplot's standard input
  series,           \* std::vector<GnuplotSeries>: the pending series
  files_to_delete,  \* std::vector<std::string>
  removed,          \* the files std::remove was called on, in order
  xrange, yrange, zrange,
  is_3dplot,
  running,          \* the host process: "running" or "aborted"; in the
                    \* destructor "closed", "slept", then "destroyed"
  last,             \* the last call: [op, args, ret]
  added,            \* for each pending series, the call that added it:
                    \* [op, is3d, vs] (a record of the run, not a member)
  cap               \* how many series the host lets pend before it shows

vars ==
  <<connection, stream_buf, delivered, series, files_to_delete, removed,
    xrange, yrange, zrange, is_3dplot, running, last, added, cap>>

session == <<series, added, xrange, yrange, zrange, is_3dplot>>

ok == connection # "nullptr"

\* A sendcommand that forgets to flush: the text stays in the buffer.
fflush_omitted(buf) == [buf |-> buf, out |-> <<>>]

\* fflush(connection): the buffered text reaches the pipe.
fflush(buf) == [buf |-> <<>>, out |-> buf]

\* A sendcommand that does not test ok() and reports success regardless.
sendcommand_unchecked(conn, buf, str) ==
  [ret |-> TRUE, buf |-> buf,
   out |-> IF conn = "nullptr" THEN <<>> ELSE buf \o str \o <<NL>>]

\* sendcommand, as a function of the connection and the FILE's buffer:
\* the value returned, the buffer left behind and the text delivered.
sendcommand(conn, buf, str) ==
  IF conn = "nullptr" THEN [ret |-> FALSE, buf |-> buf, out |-> <<>>]
  ELSE LET b1 == buf \o str           \* fputs(str, connection)
           b2 == b1 \o <<NL>>         \* fputc('\n', connection)
           f == fflush(b2)
       IN  [ret |-> TRUE, buf |-> f.buf, out |-> f.out]

\* The two commands the constructor sends.
CtorEncoding == <<"set", SP, "encoding", SP, "utf8", NL>>
CtorMinus == <<"set", SP, "minussign">>

\* The state after Gnuplot::Gnuplot: popen gave a pipe or failed.
Construct ==
  /\ connection \in {"FILE", "nullptr"}
  /\ series = <<>>
  /\ added = <<>>
  /\ files_to_delete = <<>>
  /\ removed = <<>>
  /\ is_3dplot = FALSE
  /\ xrange = format_range(NaN, NaN)
  /\ yrange = format_range(NaN, NaN)
  /\ zrange = format_range(NaN, NaN)
  /\ LET r1 == sendcommand(connection, <<>>, CtorEncoding)
         r2 == sendcommand(connection, r1.buf, CtorMinus)
     IN  /\ stream_buf = r2.buf
         /\ delivered = r1.out \o r2.out
         /\ last = [op |-> "Gnuplot", args |-> <<>>, ret |-> "void"]
  /\ running = "running"

\* A bool return value, as last.ret records it.
BoolRet(b) == IF b THEN "true" ELSE "false"

\* A call that sends one text through sendcommand and returns its result.
Send(op, args, text) ==
  /\ running = "running"
  /\ LET r == sendcommand(connection, stream_buf, text)
     IN  /\ stream_buf' = r.buf
         /\ delivered' = r.out
         /\ last' = [op |-> op, args |-> args, ret |-> BoolRet(r.ret)]
  /\ UNCHANGED <<connection, files_to_delete, removed, running, cap>>
  /\ UNCHANGED session

\* The process ends inside a call.  how: "assert" (a failed assertion),
\* "throw" (an uncaught exception) or "fault" (a memory fault).
Abort(op, args, how) ==
  /\ running = "running"
  /\ running' = "aborted"
  /\ delivered' = <<>>
  /\ last' = [op |-> op, args |-> args, ret |-> how]
  /\ UNCHANGED <<connection, stream_buf, files_to_delete, removed, cap>>
  /\ UNCHANGED session

\* A call that returns without sending and leaves the pipe alone.
Quiet(op, args, ret) ==
  /\ running = "running"
  /\ delivered' = <<>>
  /\ last' = [op |-> op, args |-> args, ret |-> ret]
  /\ UNCHANGED <<connection, stream_buf, files_to_delete, removed, running, cap>>

Sendcommand(str) == Send("sendcommand", [str |-> str], str)

TerminalText(kind, filename, size) ==
  <<"set", SP, "terminal", SP>> \o kind \o <<SP, "size", SP>> \o size
    \o <<NL, "set", SP, "output", SP, QUOTE>> \o filename \o <<QUOTE, NL>>

redirect_to_png(filename, size) ==
  Send("redirect_to_png", [filename |-> filename, size |-> size],
       TerminalText(<<"pngcairo", SP, "color", SP, "enhanced">>, filename, size))

redirect_to_pdf(filename, size) ==
  Send("redirect_to_pdf", [filename |-> filename, size |-> size],
       TerminalText(<<"pdfcairo", SP, "color", SP, "enhanced">>, filename, size))

redirect_to_svg(filename, size) ==
  Send("redirect_to_svg", [filename |-> filename, size |-> size],
       TerminalText(<<"svg", SP, "enhanced", SP, "mouse", SP, "standalone">>,
                    filename, size))

TerminalModes == {"MONO", "ANSI", "ANSI256", "ANSIRGB"}

DumbText(filename, width, height, mode) ==
  <<"set", SP, "terminal", SP, "dumb", SP, "size", SP>>
    \o FmtNat(width) \o <<SP>> \o FmtNat(height)
    \o (CASE mode = "MONO" -> <<"mono">>
          [] mode = "ANSI" -> <<"ansi">>
          [] mode = "ANSI256" -> <<"ansi256">>
          [] mode = "ANSIRGB" -> <<"ansirgb">>
          [] OTHER -> <<"mono">>)
    \o <<NL>>
    \o (IF filename # <<>>
        THEN <<"set", SP, "output", SP, QUOTE>> \o filename \o <<QUOTE, NL>>
        ELSE <<>>)

redirect_to_dumb(filename, width, height, mode) ==
  Send("redirect_to_dumb",
       [filename |-> filename, width |-> width, height |-> height, mode |-> mode],
       DumbText(filename, width, height, mode))

set_xlabel(label) ==
  Send("set_xlabel", [label |-> label],
       <<"set", SP, "xlabel", SP, QUOTE>> \o escape_quotes(label) \o <<QUOTE>>)

set_ylabel(label) ==
  Send("set_ylabel", [label |-> label],
       <<"set", SP, "ylabel", SP, QUOTE>> \o escape_quotes(label) \o <<QUOTE>>)

AxisScales == {"LINEAR", "LOGX", "LOGY", "LOGXY"}

set_logscale(scale) ==
  Send("set_logscale", [scale |-> scale],
       CASE scale = "LOGX" -> <<"set", SP, "logscale", SP, "x">>
         [] scale = "LOGY" -> <<"set", SP, "logscale", SP, "y">>
         [] scale = "LOGXY" -> <<"set", SP, "logscale", SP, "xy">>
         [] OTHER -> <<"unset", SP, "logscale">>)

multiplot(nrows, ncols, title) ==
  Send("multiplot", [nrows |-> nrows, ncols |-> ncols, title |-> title],
       <<"set", SP, "multiplot", SP, "layout", SP>> \o FmtInt(nrows)
         \o <<",", SP>> \o FmtInt(ncols) \o <<SP, "title", SP, QUOTE>>
         \o escape_quotes(title) \o <<QUOTE, NL>>)

set_xrange(min, max) ==
  /\ Quiet("set_xrange", [min |-> min, max |-> max], "void")
  /\ xrange' = format_range(min, max)
  /\ UNCHANGED <<series, added, yrange, zrange, is_3dplot>>

\* A set_yrange that writes the X descriptor as well.
set_yrange_both(min, max) ==
  /\ Quiet("set_yrange", [min |-> min, max |-> max], "void")
  /\ yrange' = format_range(min, max)
  /\ xrange' = format_range(min, max)
  /\ UNCHANGED <<series, added, zrange, is_3dplot>>

set_yrange(min, max) ==
  /\ Quiet("set_yrange", [min |-> min, max |-> max], "void")
  /\ yrange' = format_range(min, max)
  /\ UNCHANGED <<series, added, xrange, zrange, is_3dplot>>

set_zrange(min, max) ==
  /\ Quiet("set_zrange", [min |-> min, max |-> max], "void")
  /\ zrange' = format_range(min, max)
  /\ UNCHANGED <<series, added, xrange, yrange, is_3dplot>>


(***************************************************************************)
(* show and reset.                                                         *)
(***************************************************************************)
\* "$Datablock" << i
BlockName(i) == <<"$Datablock">> \o FmtNat(i)

RECURSIVE ShowBlocks(_, _)
\* The first loop of show, from index i (0-based) on.
ShowBlocks(ss, i) ==
  IF i >= Len(ss) THEN <<>>
  ELSE BlockName(i) \o <<SP, "<<", SP, "EOD", NL>> \o ss[i + 1].data_string
         \o <<NL, "EOD", NL>> \o ShowBlocks(ss, i + 1)

RECURSIVE ShowClauses(_, _)
\* The second loop of show, from index i (0-based) on.
ShowClauses(ss, i) ==
  IF i >= Len(ss) THEN <<>>
  ELSE BlockName(i) \o <<SP, "using", SP>> \o ss[i + 1].column_range
         \o <<SP, "with", SP, style_to_str(ss[i + 1].line_style), SP, "title",
              SP, QUOTE>>
         \o escape_quotes(ss[i + 1].title) \o <<QUOTE>>
         \o (IF i + 1 < Len(ss) THEN <<",", SP>> ELSE <<>>)
         \o ShowClauses(ss, i + 1)

\* A show that never says splot.
ShowHeadPlot(is3d, xr, yr, zr) ==
  <<"plot", SP>> \o xr \o <<SP>> \o yr \o <<SP>>

\* The plot/splot command word and the ranges.
ShowHead(is3d, xr, yr, zr) ==
  IF is3d THEN <<"splot", SP>> \o xr \o <<SP>> \o yr \o <<SP>> \o zr \o <<SP>>
  ELSE <<"plot", SP>> \o xr \o <<SP>> \o yr \o <<SP>>

FillStyle == <<"set", SP, "style", SP, "fill", SP, "solid", SP, "0.5", NL>>

\* The whole text show builds in os.
ShowText(ss, is3d, xr, yr, zr) ==
  FillStyle \o ShowBlocks(ss, 0) \o ShowHead(is3d, xr, yr, zr)
    \o ShowClauses(ss, 0)

\* A reset that also forgets the Z range.
ResetEffectAll ==
  /\ series' = <<>>
  /\ added' = <<>>
  /\ xrange' = format_range(NaN, NaN)
  /\ yrange' = format_range(NaN, NaN)
  /\ zrange' = format_range(NaN, NaN)
  /\ is_3dplot' = FALSE

\* The assignments of reset().
ResetEffect ==
  /\ series' = <<>>
  /\ added' = <<>>
  /\ xrange' = format_range(NaN, NaN)
  /\ yrange' = format_range(NaN, NaN)
  /\ is_3dplot' = FALSE
  /\ UNCHANGED zrange

reset ==
  /\ Quiet("reset", <<>>, "void")
  /\ ResetEffect

\* show with nothing pending: return true.
ShowEmpty(call_reset) ==
  /\ series = <<>>
  /\ Quiet("show", [call_reset |-> call_reset, n |-> 0], "true")
  /\ UNCHANGED session

\* A show that resets whenever it is asked to, sent or not.
ShowSendThenReset(call_reset) ==
  /\ running = "running"
  /\ LET r == sendcommand(connection, stream_buf,
                          ShowText(series, is_3dplot, xrange, yrange, zrange))
     IN  /\ stream_buf' = r.buf
         /\ delivered' = r.out
         /\ last' = [op |-> "show",
                     args |-> [call_reset |-> call_reset, n |-> Len(series)],
                     ret |-> BoolRet(r.ret)]
         /\ IF call_reset THEN ResetEffect ELSE UNCHANGED session
  /\ UNCHANGED <<connection, files_to_delete, removed, running, cap>>

\* The body of show after its first test: send the text, then reset if
\* asked and sent.
ShowSend(call_reset) ==
  /\ running = "running"
  /\ LET r == sendcommand(connection, stream_buf,
                          ShowText(series, is_3dplot, xrange, yrange, zrange))
     IN  /\ stream_buf' = r.buf
         /\ delivered' = r.out
         /\ last' = [op |-> "show",
                     args |-> [call_reset |-> call_reset, n |-> Len(series)],
                     ret |-> BoolRet(r.ret)]
         /\ IF r.ret /\ call_reset THEN ResetEffect ELSE UNCHANGED session
  /\ UNCHANGED <<connection, files_to_delete, removed, running, cap>>

\* show with series pending.
ShowSeries(call_reset) == series # <<>> /\ ShowSend(call_reset)

\* A show without its first test.
show_always(call_reset) == ShowSend(call_reset)

show(call_reset) == ShowEmpty(call_reset) \/ ShowSeries(call_reset)

(***************************************************************************)
(* Adding series.                                                          *)
(***************************************************************************)
\* A bound of the model: no more than MaxSeries series are left pending.
MaxSeries == 2

\* The host has room for one more pending series.
Room == Len(series) < cap

\* v[i] of a std::vector: past the end the read is undefined, and yields g.
At(v, i, g) == IF i < Len(v) THEN v[i + 1] ELSE g

RECURSIVE _print_ith_elements_every_row(_, _, _, _, _)
\* _print_ith_elements without its "if (i == 0)": the column numbers are
\* written again with every row.
_print_ith_elements_every_row(acc, index, i, vs, g) ==
  IF vs = <<>> THEN acc
  ELSE _print_ith_elements_every_row(
         [os |-> acc.os \o FmtDouble(At(Head(vs), i, g)) \o <<SP>>,
          fmts |-> acc.fmts \o (IF index > 1 THEN <<":">> ELSE <<>>)
                     \o FmtInt(index)],
         index + 1, i, Tail(vs), g)

RECURSIVE _print_ith_elements(_, _, _, _, _)
\* acc = [os, fmts]; vs = the vectors still to print; i is 0-based.
_print_ith_elements(acc, index, i, vs, g) ==
  IF vs = <<>> THEN acc
  ELSE _print_ith_elements(
         [os |-> acc.os \o FmtDouble(At(Head(vs), i, g)) \o <<SP>>,
          fmts |-> IF i = 0
                   THEN acc.fmts \o (IF index > 1 THEN <<":">> ELSE <<>>)
                          \o FmtInt(index)
                   ELSE acc.fmts],
         index + 1, i, Tail(vs), g)

RECURSIVE PlotRowsShort(_, _, _, _)
\* The loop of _plot stopping one row early.
PlotRowsShort(acc, i, vs, g) ==
  IF i + 1 >= Len(vs[1]) THEN acc
  ELSE LET a == _print_ith_elements(acc, 1, i, vs, g)
       IN  PlotRowsShort([os |-> a.os \o <<NL>>, fmts |-> a.fmts], i + 1, vs, g)

RECURSIVE PlotRows(_, _, _, _)
\* The loop of _plot over i = 0 .. v.size()-1.
PlotRows(acc, i, vs, g) ==
  IF i >= Len(vs[1]) THEN acc
  ELSE LET a == _print_ith_elements(acc, 1, i, vs, g)
       IN  PlotRows([os |-> a.os \o <<NL>>, fmts |-> a.fmts], i + 1, vs, g)

\* Some vector after the first is shorter than the first: _print_ith_elements
\* reads it past its end.
ReadsPastEnd(vs) == \E k \in 2..Len(vs) : Len(vs[k]) < Len(vs[1])

\* What a read past the end of a vector may yield.
Garbage == {D(99)}

\* The GnuplotSeries _plot pushes.
PlotSeries(label, style, vs, g) ==
  LET a == PlotRows([os |-> <<>>, fmts |-> <<>>], 0, vs, g)
  IN  [data_string |-> a.os, line_style |-> style, title |-> label,
       column_range |-> a.fmts]

\* No 2D/3D check at all.
ModeClashNever(is_this_3dplot) == FALSE

\* The 2D/3D check of _plot: true when the assertion fails.
ModeClash(is_this_3dplot) == series # <<>> /\ is_3dplot # is_this_3dplot

PlotArgs(label, style, vs) == [vs |-> vs, label |-> label, style |-> style]

\* _plot without its "if (v.empty()) return": an empty first vector goes on
\* to the 2D/3D check and is pushed as a series of no rows.
PlotEmptyGoesOn(op, label, style, is_this_3dplot, vs) ==
  /\ vs[1] = <<>>
  /\ IF ModeClash(is_this_3dplot)
     THEN Abort(op, PlotArgs(label, style, vs), "assert")
     ELSE /\ Room
          /\ series' = Append(series, PlotSeries(label, style, vs, D(0)))
          /\ added' = Append(added, [op |-> op, is3d |-> is_this_3dplot,
                                    vs |-> vs])
          /\ is_3dplot' = is_this_3dplot
          /\ Quiet(op, PlotArgs(label, style, vs), "void")
          /\ UNCHANGED <<xrange, yrange, zrange>>

\* _plot with an empty first vector: return at once.
PlotEmpty(op, label, style, is_this_3dplot, vs) ==
  /\ vs[1] = <<>>
  /\ Quiet(op, PlotArgs(label, style, vs), "void")
  /\ UNCHANGED session

\* _plot failing its assertion.
PlotClash(op, label, style, is_this_3dplot, vs) ==
  /\ vs[1] # <<>>
  /\ ModeClash(is_this_3dplot)
  /\ Abort(op, PlotArgs(label, style, vs), "assert")

\* _plot reading past the end of a vector and faulting.
PlotFault(op, label, style, is_this_3dplot, vs) ==
  /\ vs[1] # <<>>
  /\ ~ModeClash(is_this_3dplot)
  /\ ReadsPastEnd(vs)
  /\ Abort(op, PlotArgs(label, style, vs), "fault")

\* _plot pushing a series.
\* A _plot that forgets "is_3dplot = is_this_3dplot".
PlotPushKeepsMode(op, label, style, is_this_3dplot, vs) ==
  /\ vs[1] # <<>>
  /\ ~ModeClash(is_this_3dplot)
  /\ Room
  /\ \E g \in (IF ReadsPastEnd(vs) THEN Garbage ELSE {D(0)}) :
       series' = Append(series, PlotSeries(label, style, vs, g))
  /\ added' = Append(added, [op |-> op, is3d |-> is_this_3dplot, vs |-> vs])
  /\ Quiet(op, PlotArgs(label, style, vs), "void")
  /\ UNCHANGED <<xrange, yrange, zrange, is_3dplot>>

PlotPush(op, label, style, is_this_3dplot, vs) ==
  /\ vs[1] # <<>>
  /\ ~ModeClash(is_this_3dplot)
  /\ Room
  /\ \E g \in (IF ReadsPastEnd(vs) THEN Garbage ELSE {D(0)}) :
       series' = Append(series, PlotSeries(label, style, vs, g))
  /\ added' = Append(added, [op |-> op, is3d |-> is_this_3dplot, vs |-> vs])
  /\ is_3dplot' = is_this_3dplot
  /\ Quiet(op, PlotArgs(label, style, vs), "void")
  /\ UNCHANGED <<xrange, yrange, zrange>>

_plot(op, label, style, is_this_3dplot, vs) ==
  \/ PlotEmpty(op, label, style, is_this_3dplot, vs)
  \/ PlotClash(op, label, style, is_this_3dplot, vs)
  \/ PlotFault(op, label, style, is_this_3dplot, vs)
  \/ PlotPush(op, label, style, is_this_3dplot, vs)

plot_y(y, label, style) == _plot("plot_y", label, style, FALSE, <<y>>)
plot_xy(x, y, label, style) == _plot("plot_xy", label, style, FALSE, <<x, y>>)
plot_xerr(x, y, err, label) ==
  _plot("plot_xerr", label, "X_ERROR_BARS", FALSE, <<x, y, err>>)
plot_yerr(x, y, err, label) ==
  _plot("plot_yerr", label, "Y_ERROR_BARS", FALSE, <<x, y, err>>)
plot_xyerr(x, y, xerr, yerr, label) ==
  _plot("plot_xyerr", label, "XY_ERROR_BARS", FALSE, <<x, y, xerr, yerr>>)
plot_vectors(x, y, vx, vy, label) ==
  _plot("plot_vectors", label, "VECTORS", FALSE, <<x, y, vx, vy>>)
plot3d(x, y, z, label, style) ==
  _plot("plot3d", label, style, TRUE, <<x, y, z>>)
plot_vectors3d(x, y, z, vx, vy, vz, label) ==
  _plot("plot_vectors3d", label, "VECTORS", TRUE, <<x, y, z, vx, vy, vz>>)

(***************************************************************************)
(* histogram.  Arithmetic on doubles is exact arithmetic on n/d.           *)
(***************************************************************************)
RLess(a, b) == a[1] * b[2] < b[1] * a[2]
RSub(a, b) == <<a[1] * b[2] - b[1] * a[2], a[2] * b[2]>>
RAdd(a, b) == <<a[1] * b[2] + b[1] * a[2], a[2] * b[2]>>

\* *std::min_element and *std::max_element of a non-empty vector.
MinElement(v) == CHOOSE m \in {v[k] : k \in 1..Len(v)} :
                   \A k \in 1..Len(v) : ~RLess(v[k], m)
MaxElement(v) == CHOOSE m \in {v[k] : k \in 1..Len(v)} :
                   \A k \in 1..Len(v) : ~RLess(m, v[k])

\* (max - min) / nbins
BinWidth(min, max, nbins) ==
  LET w == RSub(max, min) IN <<w[1], w[2] * nbins>>

\* What static_cast<int> of a NaN may yield: INT_MIN (x86) or 0 (ARM).
CastOfNaN == {(0 - 2147483647) - 1, 0}

\* The bin index of one value without the "if (index >= int(nbins)) --index".
BinIndexUnclamped(val, min, binwidth, nbins, c) ==
  LET num == RSub(val, min)
  IN  IF binwidth[1] = 0 THEN c
      ELSE (num[1] * binwidth[2]) \div (num[2] * binwidth[1])

\* The bin index of one value, after the "if (index >= int(nbins)) --index".
\* With binwidth = 0 the quotient is 0/0 = NaN and the cast is undefined: c.
BinIndex(val, min, binwidth, nbins, c) ==
  LET num == RSub(val, min)
      index == IF binwidth[1] = 0 THEN c
               ELSE (num[1] * binwidth[2]) \div (num[2] * binwidth[1])
  IN  IF index >= nbins THEN index - 1 ELSE index

\* bins.at(index) throws std::out_of_range for some value.
BinThrows(values, nbins, c) ==
  LET min == MinElement(values)
      bw == BinWidth(min, MaxElement(values), nbins)
  IN  \E k \in 1..Len(values) :
        BinIndex(values[k], min, bw, nbins, c) \notin 0..(nbins - 1)

RECURSIVE HistRows(_, _, _, _, _)
\* The loop writing one row per bin, from bin i on.
HistRows(values, nbins, c, i, acc) ==
  IF i >= nbins THEN acc
  ELSE LET min == MinElement(values)
           bw == BinWidth(min, MaxElement(values), nbins)
           count == Cardinality({k \in 1..Len(values) :
                                   BinIndex(values[k], min, bw, nbins, c) = i})
           centre == RAdd(min, <<bw[1] * (2 * i + 1), bw[2] * 2>>)
       IN  HistRows(values, nbins, c, i + 1,
                    acc \o FmtDouble(centre) \o <<SP>> \o FmtNat(count) \o <<NL>>)

HistArgs(values, nbins, label, style) ==
  [values |-> values, nbins |-> nbins, label |-> label, style |-> style]

\* assert(nbins > 0) fails.
HistNoBins(values, nbins, label, style) ==
  /\ nbins = 0
  /\ Abort("histogram", HistArgs(values, nbins, label, style), "assert")

HistEmpty(values, nbins, label, style) ==
  /\ nbins > 0
  /\ values = <<>>
  /\ Quiet("histogram", HistArgs(values, nbins, label, style), "void")
  /\ UNCHANGED session

\* assert(!is_3dplot) fails.
HistClash(values, nbins, label, style) ==
  /\ nbins > 0
  /\ values # <<>>
  /\ ModeClash(FALSE)
  /\ Abort("histogram", HistArgs(values, nbins, label, style), "assert")

\* The casts this call may see: one outcome when no cast is undefined.
HistCasts(values) ==
  IF RLess(MinElement(values), MaxElement(values)) THEN {0} ELSE CastOfNaN

HistThrow(values, nbins, label, style) ==
  /\ nbins > 0
  /\ values # <<>>
  /\ ~ModeClash(FALSE)
  /\ \E c \in HistCasts(values) : BinThrows(values, nbins, c)
  /\ Abort("histogram", HistArgs(values, nbins, label, style), "throw")

HistPush(values, nbins, label, style) ==
  /\ nbins > 0
  /\ values # <<>>
  /\ ~ModeClash(FALSE)
  /\ Room
  /\ \E c \in HistCasts(values) :
       /\ ~BinThrows(values, nbins, c)
       /\ series' = Append(series,
            [data_string |-> HistRows(values, nbins, c, 0, <<>>),
             line_style |-> style, title |-> label,
             column_range |-> <<"1", ":", "2">>])
  /\ added' = Append(added, [op |-> "histogram", is3d |-> FALSE,
                           vs |-> <<values>>])
  /\ is_3dplot' = FALSE
  /\ Quiet("histogram", HistArgs(values, nbins, label, style), "void")
  /\ UNCHANGED <<xrange, yrange, zrange>>

histogram(values, nbins, label, style) ==
  \/ HistNoBins(values, nbins, label, style)
  \/ HistEmpty(values, nbins, label, style)
  \/ HistClash(values, nbins, label, style)
  \/ HistThrow(values, nbins, label, style)
  \/ HistPush(values, nbins, label, style)

(***************************************************************************)
(* The calls a host program makes: the arguments the model draws.          *)
(***************************************************************************)
\* The default arguments of the plot methods.
DefaultLabel == <<>>
DefaultStyle == "LINES"
DefaultHistStyle == "BOXES"

QuotedLabel == <<"i", "t", QUOTE, "s">>

\* The k-th companion vector, of length n: elements 10k+1, 10k+2, ...
Companion(k, n) == [i \in 1..n |-> D(10 * k + i)]

\* How the companions' lengths relate to the first vector's: <<0, 0>> all
\* equal, <<j, -1>> the j-th one shorter, <<j, 1>> the j-th one longer.
EqualShape == {<<0, 0>>}
Shapes(c) == EqualShape \cup {<<j, dl>> : j \in 1..c, dl \in {0 - 1, 1}}

\* The vectors of one call: first vector p, c companions of shape sh.
Vectors(p, c, sh) ==
  <<p>> \o [k \in 1..c |->
              Companion(k, IF k = sh[1] THEN Len(p) + sh[2] ELSE Len(p))]

\* The calls with a first vector of firsts, c companions and a shape of
\* shapes (no vector of negative length).
Calls(firsts, c, shapes) ==
  {Vectors(a[1], c, a[2]) :
     a \in {b \in firsts \X shapes : b[2][2] >= 0 \/ b[1] # <<>>}}

\* First vectors: empty, and two elements of which one needs seven digits.
Firsts == {<<>>, <<D(0 - 2), D(1234567)>>}

\* The arguments of the plot session: non-empty vectors of equal lengths, but
\* for plot(y) and histogram of an empty vector, one call of plot(x, y) with a
\* short y and one histogram of a constant vector.
LeanMenu ==
  [firsts |-> Firsts,
   c1 |-> Calls(Firsts \ {<<>>}, 1, EqualShape \cup {<<1, 0 - 1>>}),
   c2 |-> Calls(Firsts \ {<<>>}, 2, EqualShape),
   c3 |-> Calls(Firsts \ {<<>>}, 3, EqualShape),
   c5 |-> Calls(Firsts \ {<<>>}, 5, EqualShape),
   labels |-> {QuotedLabel},
   styles |-> {"POINTS"},
   hvalues |-> {<<>>, <<D(5), D(2), D(4), D(1), D(3)>>, <<D(3), D(3)>>},
   bins |-> {0, 2},
   hstyles |-> {DefaultHistStyle}]

\* The arguments of single calls: every shape of every method.
RichMenu ==
  [firsts |-> Firsts,
   c1 |-> Calls(Firsts, 1, Shapes(1)),
   c2 |-> Calls(Firsts, 2, Shapes(2)),
   c3 |-> Calls(Firsts, 3, Shapes(3)),
   c5 |-> Calls(Firsts, 5, Shapes(5)),
   labels |-> {DefaultLabel},
   styles |-> {DefaultStyle, "POINTS"},
   hvalues |-> {<<>>, <<D(5), D(2), D(4), D(1), D(3)>>, <<D(3), D(3)>>,
                <<D(1), D(2), D(3), D(4), D(5)>>, <<D(0 - 2)>>},
   bins |-> {0, 1, 2, 3},
   hstyles |-> {DefaultHistStyle, "STEPS"}]

AddSeries(m) ==
  \/ \E y \in m.firsts, l \in m.labels, s \in m.styles : plot_y(y, l, s)
  \/ \E vs \in m.c1, l \in m.labels, s \in m.styles :
       plot_xy(vs[1], vs[2], l, s)
  \/ \E vs \in m.c2, l \in m.labels : plot_xerr(vs[1], vs[2], vs[3], l)
  \/ \E vs \in m.c2, l \in m.labels : plot_yerr(vs[1], vs[2], vs[3], l)
  \/ \E vs \in m.c3, l \in m.labels :
       plot_xyerr(vs[1], vs[2], vs[3], vs[4], l)
  \/ \E vs \in m.c3, l \in m.labels :
       plot_vectors(vs[1], vs[2], vs[3], vs[4], l)
  \/ \E vs \in m.c2, l \in m.labels, s \in m.styles :
       plot3d(vs[1], vs[2], vs[3], l, s)
  \/ \E vs \in m.c5, l \in m.labels :
       plot_vectors3d(vs[1], vs[2], vs[3], vs[4], vs[5], vs[6], l)
  \/ \E v \in m.hvalues, n \in m.bins, l \in m.labels, s \in m.hstyles :
       histogram(v, n, l, s)

Configure(ranges) ==
  \/ \E a \in ranges : set_xrange(a[1], a[2])
  \/ \E a \in ranges : set_yrange(a[1], a[2])
  \/ \E a \in ranges : set_zrange(a[1], a[2])

FileNames == {<<"out">>}
Commands == {<<"set", SP, "grid">>}

DumbSizes == {<<80, 50>>, <<132, 7>>}

SendOps ==
  \/ \E c \in Commands : Sendcommand(c)
  \/ \E f \in FileNames : redirect_to_png(f, <<"800", ",", "600">>)
  \/ \E f \in FileNames : redirect_to_pdf(f, <<"16cm", ",", "12cm">>)
  \/ \E f \in FileNames : redirect_to_svg(f, <<"800", ",", "600">>)
  \/ \E f \in FileNames \cup {<<>>}, m \in TerminalModes, sz \in DumbSizes :
       redirect_to_dumb(f, sz[1], sz[2], m)
  \/ \E l \in {DefaultLabel, QuotedLabel} : set_xlabel(l)
  \/ \E l \in {DefaultLabel, QuotedLabel} : set_ylabel(l)
  \/ \E sc \in AxisScales : set_logscale(sc)
  \/ \E t \in {DefaultLabel, QuotedLabel} : multiplot(2, 1, t)

(***************************************************************************)
(* The plot session: series are added, the ranges set, the plot shown and  *)
(* reset.                                                                  *)
(***************************************************************************)
Init == Construct /\ cap = MaxSeries

Next ==
  \/ AddSeries(LeanMenu)
  \/ Configure({<<NaN, NaN>>, <<D(0 - 3), NaN>>})
  \/ \E r \in BOOLEAN : show(r)
  \/ reset

Spec == Init /\ [][Next]_vars

(***************************************************************************)
(* Single calls: every method with vectors of every shape, in a session    *)
(* that the host shows before it adds a second series.                     *)
(***************************************************************************)
InitOne == Construct /\ cap = 1

NextAdd ==
  \/ AddSeries(RichMenu)
  \/ \E r \in BOOLEAN : show(r)
  \/ reset

SpecAdd == InitOne /\ [][NextAdd]_vars

(***************************************************************************)
(* Command emission: every method that sends a command, and show.          *)
(***************************************************************************)
NextCmd ==
  \/ SendOps
  \/ AddSeries(LeanMenu)
  \/ \E r \in BOOLEAN : show(r)
  \/ reset

SpecCmd == InitOne /\ [][NextCmd]_vars

(***************************************************************************)
(* The range setters alone, over bounds that exercise the number format.   *)
(***************************************************************************)
RangeBounds == {NaN, <<0 - 5, 2>>, D(1234567)}

NextRange == Configure(RangeBounds \X RangeBounds)

SpecRange == InitOne /\ [][NextRange]_vars


(***************************************************************************)
(* The life of the object: commands, series and shows, then the destructor *)
(* in its three steps.                                                     *)
(***************************************************************************)
\* A destructor that leaves the pipe open.
DtorSkipsClose ==
  /\ running = "running"
  /\ running' = "closed"
  /\ delivered' = <<>>
  /\ last' = [op |-> "~Gnuplot", args |-> <<>>, ret |-> "void"]
  /\ UNCHANGED <<connection, stream_buf, files_to_delete, removed, cap>>
  /\ UNCHANGED session

\* if (connection) { safe_pclose(connection); connection = nullptr; }
DtorClose ==
  /\ running = "running"
  /\ running' = "closed"
  /\ connection' = "nullptr"
  /\ delivered' = IF ok THEN stream_buf ELSE <<>>
  /\ stream_buf' = <<>>
  /\ last' = [op |-> "~Gnuplot", args |-> <<>>, ret |-> "void"]
  /\ UNCHANGED <<files_to_delete, removed, cap>>
  /\ UNCHANGED session

\* safe_sleep(1)
DtorSleep ==
  /\ running = "closed"
  /\ running' = "slept"
  /\ UNCHANGED <<connection, stream_buf, delivered, files_to_delete, removed,
                 last, cap>>
  /\ UNCHANGED session

\* The loop over files_to_delete, and the end of the object.
DtorRemove ==
  /\ running = "slept"
  /\ running' = "destroyed"
  /\ removed' = removed \o files_to_delete
  /\ UNCHANGED <<connection, stream_buf, delivered, files_to_delete, last, cap>>
  /\ UNCHANGED session

Destroy == DtorClose \/ DtorSleep \/ DtorRemove

NextLife == NextCmd \/ Destroy

SpecLife == InitOne /\ [][NextLife]_vars

(***************************************************************************)
(* What show sends: series of both kinds pending, an X and a Z range set.  *)
(***************************************************************************)
NextShow ==
  \/ AddSeries(LeanMenu)
  \/ set_xrange(D(0 - 3), NaN)
  \/ set_zrange(NaN, D(7))
  \/ \E r \in BOOLEAN : show(r)
  \/ reset

SpecShow == Init /\ [][NextShow]_vars

(***************************************************************************)
(* Labels: every text of up to MaxLabel atoms over a letter and the quote, *)
(* handed to each method that embeds a text in a quoted argument.          *)
(***************************************************************************)
MaxLabel == 3

LabelAtoms == {"a", QUOTE}

Labels == UNION {[1..n -> LabelAtoms] : n \in 0..MaxLabel}

LabelPoints == <<D(1)>>

NextLabel ==
  \/ \E l \in Labels : set_xlabel(l) \/ set_ylabel(l) \/ multiplot(2, 1, l)
  \/ \E l \in Labels : plot_y(LabelPoints, l, DefaultStyle)
  \/ AddSeries(LeanMenu)
  \/ \E r \in BOOLEAN : show(r)

SpecLabel == InitOne /\ [][NextLabel]_vars

-----------------------------------------------------------------------------
\* Properties of the session.

\* The operations that add a series, by the kind of plot they belong to.
AddOps2D ==
  {"plot_y", "plot_xy", "plot_xerr", "plot_yerr", "plot_xyerr",
   "plot_vectors", "histogram"}

AddOps3D == {"plot3d", "plot_vectors3d"}

AddOps == AddOps2D \cup AddOps3D

\* The primary sequence of a recorded add-series call.
FirstOf(call) ==
  IF call.op = "histogram" THEN call.args.values ELSE call.args.vs[1]

\* The descriptor of an axis left to gnuplot.
AutoRange == <<"[", "]">>

\* The step is a call that has no effect on the session and returns normally.
SilentStep ==
  /\ running' = "running"
  /\ last'.ret = "void"
  /\ delivered' = <<>>
  /\ UNCHANGED <<connection, stream_buf, files_to_delete>>
  /\ UNCHANGED session

\* C1: once a series is pending, an add-series call of the other kind (2D
\* after 3D, 3D after 2D) with a non-empty primary sequence is rejected: the
\* assertion stops the program and the pending list is left as it was.
C1_ModeMixingRejected ==
  [][(/\ last'.op \in AddOps
      /\ FirstOf(last') # <<>>
      /\ series # <<>>
      /\ added[Len(added)].is3d # (last'.op \in AddOps3D))
     => (/\ last'.ret = "assert"
         /\ running' = "aborted"
         /\ series' = series
         /\ is_3dplot' = is_3dplot)]_vars

\* C1, its case: a histogram of two values asked for while a 3D series is
\* pending has stopped the program.
C1_Witness ==
  /\ running = "aborted"
  /\ last.op = "histogram"
  /\ last.ret = "assert"
  /\ last.args.nbins > 0
  /\ last.args.values # <<>>
  /\ series # <<>>
  /\ added[Len(added)].is3d

\* The add-series calls that take companion sequences.
CompanionOps == AddOps \ {"plot_y", "histogram"}

\* Some companion's length differs from the primary's.
Mismatched(vs) == \E k \in 2..Len(vs) : Len(vs[k]) # Len(vs[1])

\* C2, as the specification states it: a call whose companion differs in
\* length from a non-empty primary sequence is refused, it does not return
\* normally and appends nothing.  The code has no such check.
C2_MismatchRejected ==
  [][(/\ last'.op \in CompanionOps
      /\ FirstOf(last') # <<>>
      /\ Mismatched(last'.args.vs))
     => (/\ last'.ret # "void"
         /\ series' = series)]_vars

\* C3: a show(call_reset = true) that sent its text leaves no pending series,
\* automatic X and Y ranges and a 2D session, and does not touch the Z range;
\* a show that follows it at once writes nothing and returns true.
C3_ShowResets ==
  [][/\ (/\ last'.op = "show"
         /\ last'.args.call_reset
         /\ last'.ret = "true"
         /\ series # <<>>)
        => (/\ series' = <<>>
            /\ xrange' = AutoRange
            /\ yrange' = AutoRange
            /\ is_3dplot' = FALSE
            /\ zrange' = zrange)
     /\ (/\ last.op = "show"
         /\ last.args.call_reset
         /\ last.ret = "true"
         /\ last.args.n > 0
         /\ last'.op = "show")
        => (/\ delivered' = <<>>
            /\ last'.ret = "true")]_vars

\* C3, its case: a show(true) has sent a pending series and reset the
\* session while the Z range was fixed; the Z range is still fixed.
C3_Witness ==
  /\ last.op = "show"
  /\ last.args.call_reset
  /\ last.args.n > 0
  /\ last.ret = "true"
  /\ series = <<>>
  /\ xrange = AutoRange
  /\ zrange # AutoRange

\* C4: show with nothing pending returns true, writes nothing to the
\* connection (absent or live) and leaves the session as it was, ranges
\* included, whatever call_reset is.
C4_ShowEmptyNoop ==
  [][(last'.op = "show" /\ series = <<>>)
     => (/\ last'.ret = "true"
         /\ delivered' = <<>>
         /\ running' = "running"
         /\ UNCHANGED <<connection, stream_buf, files_to_delete>>
         /\ UNCHANGED session)]_vars

\* C4, its case: a show(true) with nothing pending has returned true on an
\* absent connection and the fixed X range is still there.
C4_Witness ==
  /\ last.op = "show"
  /\ last.args.n = 0
  /\ last.args.call_reset
  /\ last.ret = "true"
  /\ connection = "nullptr"
  /\ delivered = <<>>
  /\ series = <<>>
  /\ xrange # AutoRange

\* C5, as the specification states it: an add-series call with an empty
\* primary sequence is a silent no-op whatever its other arguments are.
C5_EmptyFirstNoop_AnyArguments ==
  [][(last'.op \in AddOps /\ FirstOf(last') = <<>>) => SilentStep]_vars

\* C5, amended: an add-series call with an empty primary sequence is a
\* silent no-op (nothing appended, nothing written, the kind of plot
\* unchanged, no failure), for histogram provided the bin count is at least
\* one: a bin count of zero fails its assertion before the emptiness test.
C5_EmptyFirstNoop ==
  [][(/\ last'.op \in AddOps
      /\ FirstOf(last') = <<>>
      /\ ~(last'.op = "histogram" /\ last'.args.nbins = 0))
     => SilentStep]_vars

\* C5, its case: a histogram of no values has returned while a 3D series is
\* pending, where a histogram of some values would have been refused.
C5_Witness ==
  /\ last.op = "histogram"
  /\ last.args.values = <<>>
  /\ last.args.nbins > 0
  /\ last.ret = "void"
  /\ running = "running"
  /\ series # <<>>
  /\ is_3dplot


\* C6: sendcommand on an absent connection returns false and changes
\* nothing; on a live one it writes the text and one newline, leaves nothing
\* unflushed in the stream and returns true.
C6_Sendcommand ==
  [][(last'.op = "sendcommand")
     => IF connection = "nullptr"
        THEN /\ last'.ret = "false"
             /\ delivered' = <<>>
             /\ running' = "running"
             /\ UNCHANGED <<connection, stream_buf, files_to_delete>>
             /\ UNCHANGED session
        ELSE /\ last'.ret = "true"
             /\ delivered' = last'.args.str \o <<"\n">>
             /\ stream_buf' = <<>>
             /\ UNCHANGED session]_vars

\* C6, its case: "set grid" has been sent on a live connection, the pipe
\* received it with its newline and nothing is left in the buffer.
C6_Witness ==
  /\ last.op = "sendcommand"
  /\ last.ret = "true"
  /\ connection = "FILE"
  /\ delivered = <<"set", " ", "grid", "\n">>
  /\ stream_buf = <<>>

\* The operations that send a command to gnuplot.
SendNames ==
  {"sendcommand", "redirect_to_png", "redirect_to_pdf", "redirect_to_svg",
   "redirect_to_dumb", "set_xlabel", "set_ylabel", "set_logscale",
   "multiplot", "show"}

\* The step neither writes nor changes anything, and the program goes on.
NoEffectStep ==
  /\ delivered' = <<>>
  /\ running' = "running"
  /\ UNCHANGED <<connection, stream_buf, files_to_delete>>
  /\ UNCHANGED session

\* C7, as the specification states it: on an absent connection every
\* operation that sends a command returns false and has no effect.
C7_AbsentAlwaysFalse ==
  [][(connection = "nullptr" /\ last'.op \in SendNames)
     => (last'.ret = "false" /\ NoEffectStep)]_vars

\* C7, amended: on an absent connection no operation that sends a command
\* writes, changes the session or stops the program; each returns false,
\* except show with nothing pending, which returns true.
C7_AbsentNeverSends ==
  [][(connection = "nullptr" /\ last'.op \in SendNames)
     => (/\ NoEffectStep
         /\ last'.ret = IF last'.op = "show" /\ series = <<>>
                        THEN "true" ELSE "false")]_vars

\* C7, its case: a show with a series pending has returned false on an
\* absent connection and the series is still pending.
C7_Witness ==
  /\ connection = "nullptr"
  /\ last.op = "show"
  /\ last.args.n > 0
  /\ last.ret = "false"
  /\ series # <<>>
  /\ running = "running"


\* Reading back what was written: the text cut at every separator, so that
\* n separators give n + 1 pieces.
PiecesAt(text, cuts) ==
  [k \in 1..(Cardinality(cuts) - 1) |->
     SubSeq(text,
            (CHOOSE c \in cuts : Cardinality({d \in cuts : d < c}) = k - 1) + 1,
            (CHOOSE c \in cuts : Cardinality({d \in cuts : d < c}) = k) - 1)]

SplitOn(text, sep) ==
  CHOOSE pieces \in
    {PiecesAt(t, {0, Len(t) + 1} \cup {i \in 1..Len(t) : t[i] = sep}) :
       t \in {text}} : TRUE

NotBlank(piece) == piece # <<>>

TextLines(text) == SplitOn(text, "\n")

\* The whitespace-separated columns of a row.
Columns(row) == SelectSeq(SplitOn(row, " "), NotBlank)

\* The lines that open a data block.
BlockHeaders(ls) ==
  {h \in 1..Len(ls) :
     /\ Len(ls[h]) >= 1
     /\ ls[h][1] = "$Datablock"
     /\ \E j \in 1..Len(ls[h]) : ls[h][j] = "<<"}

\* The first line "EOD" after line h.
BlockEnd(ls, h) ==
  CHOOSE e \in (h + 1)..Len(ls) :
    /\ ls[e] = <<"EOD">>
    /\ \A j \in (h + 1)..(e - 1) : ls[j] # <<"EOD">>

\* The rows of the block opened at line h.
BlockRows(ls, h) ==
  SelectSeq(SubSeq(ls, h + 1, BlockEnd(ls, h) - 1), NotBlank)

\* The rows of a recorded data string.
DataRows(data_string) == SelectSeq(TextLines(data_string), NotBlank)

\* The text gnuplot receives holds exactly one data block, $Datablock0,
\* closed by EOD, whose rows are those of the sequences vs zipped: one row
\* per element, one column per sequence, each column the stream text of its
\* element.
OneBlockOf(text, vs) ==
  LET ls == TextLines(text)
  IN  /\ Cardinality(BlockHeaders(ls)) = 1
      /\ \A h \in BlockHeaders(ls) :
           /\ ls[h] = <<"$Datablock", "0", " ", "<<", " ", "EOD">>
           /\ \E e \in (h + 1)..Len(ls) : ls[e] = <<"EOD">>
           /\ LET rows == BlockRows(ls, h)
              IN  /\ Len(rows) = Len(vs[1])
                  /\ \A i \in 1..Len(rows) :
                       /\ Len(Columns(rows[i])) = Len(vs)
                       /\ \A k \in 1..Len(vs) :
                            Columns(rows[i])[k] = FmtDouble(vs[k][i])

\* The sequences of a recorded call all have the length of the first.
EqualLengths(vs) == \A k \in 1..Len(vs) : Len(vs[k]) = Len(vs[1])

\* C8: when one add-series call with sequences of equal length is followed
\* by show() on a live connection, gnuplot receives exactly one data block,
\* "$Datablock0 << EOD" ... "EOD", with as many rows as the sequences have
\* elements and as many columns as there are sequences, column k of row i
\* being element i of the k-th sequence as the stream writes it.
C8_OneDataBlock ==
  [][(/\ last'.op = "show"
      /\ connection = "FILE"
      /\ Len(series) = 1
      /\ added[1].op # "histogram"
      /\ EqualLengths(added[1].vs))
     => (/\ last'.ret = "true"
         /\ OneBlockOf(delivered', added[1].vs))]_vars

\* C8, its case: a show has sent the single series of a plot_vectors3d call,
\* six sequences of two elements each.
C8_Witness ==
  /\ last.op = "show"
  /\ last.args.n = 1
  /\ last.ret = "true"
  /\ connection = "FILE"
  /\ Len(added) = 1
  /\ added[1].op = "plot_vectors3d"
  /\ EqualLengths(added[1].vs)
  /\ Len(added[1].vs[1]) = 2
  /\ OneBlockOf(delivered, added[1].vs)

\* The descriptor "1:2:...:n".
RECURSIVE ColumnsUpTo(_)
ColumnsUpTo(n) ==
  IF n = 1 THEN <<"1">> ELSE ColumnsUpTo(n - 1) \o <<":">> \o FmtNat(n)

\* The descriptor each operation records according to the specification,
\* where plot(y) is given a row index as its first column.
ClaimedColumns(op) ==
  CASE op \in {"plot_y", "plot_xy", "histogram"} -> ColumnsUpTo(2)
    [] op \in {"plot_xerr", "plot_yerr", "plot3d"} -> ColumnsUpTo(3)
    [] op \in {"plot_xyerr", "plot_vectors"} -> ColumnsUpTo(4)
    [] op = "plot_vectors3d" -> ColumnsUpTo(6)

\* The descriptor each operation records: plot(y) has its one column only.
RecordedColumns(op) ==
  IF op = "plot_y" THEN ColumnsUpTo(1) ELSE ClaimedColumns(op)

\* The gnuplot style word of the series an operation records: the caller's
\* for plot, plot3d and histogram, a fixed one for the others.
RecordedStyle(call) ==
  CASE call.op = "plot_xerr" -> "xerrorbars"
    [] call.op = "plot_yerr" -> "yerrorbars"
    [] call.op = "plot_xyerr" -> "xyerrorbars"
    [] call.op \in {"plot_vectors", "plot_vectors3d"} -> "vectors"
    [] OTHER -> style_to_str(call.args.style)

\* The step is an add-series call that has appended a series.
Appended == last'.op \in AddOps /\ Len(series') = Len(series) + 1

\* C9, as the specification states it: the recorded descriptor is "1:2" for
\* plot(y), plot(x, y) and histogram, "1:2:3" for plot_xerr, plot_yerr and
\* plot3d, "1:2:3:4" for plot_xyerr and plot_vectors, "1:2:3:4:5:6" for
\* plot_vectors3d, with the style as tabulated.
C9_TableAsStated ==
  [][Appended
     => LET s == series'[Len(series')]
        IN  /\ s.column_range = ClaimedColumns(last'.op)
            /\ style_to_str(s.line_style) = RecordedStyle(last')]_vars

\* C9, amended: the recorded descriptor is "1" for plot(y), whose rows hold
\* the value alone with no index column, and as tabulated for the others; it
\* names exactly the columns of the recorded rows; the style is the
\* caller's for plot, plot3d and histogram and the fixed one for the others.
C9_ColumnTable ==
  [][Appended
     => LET s == series'[Len(series')]
            rows == DataRows(s.data_string)
        IN  /\ s.column_range = RecordedColumns(last'.op)
            /\ rows # <<>>
            /\ \A i \in 1..Len(rows) :
                 s.column_range = ColumnsUpTo(Len(Columns(rows[i])))
            /\ style_to_str(s.line_style) = RecordedStyle(last')
            /\ s.title = last'.args.label]_vars

\* C9, its case: plot(y) with the default style has recorded a series of
\* descriptor "1" drawn with lines.
C9_Witness ==
  /\ last.op = "plot_y"
  /\ last.ret = "void"
  /\ last.args.style = DefaultStyle
  /\ series # <<>>
  /\ series[Len(series)].column_range = <<"1">>
  /\ style_to_str(series[Len(series)].line_style) = "lines"
  /\ Len(DataRows(series[Len(series)].data_string)) = 2

\* The number of "*" in a descriptor.
Stars(text) == Cardinality({i \in 1..Len(text) : text[i] = "*"})

\* The text of one bound: "*" when automatic, its stream text when fixed.
BoundText(x) == IF x = NaN THEN <<"*">> ELSE FmtDouble(x)

\* The descriptor of the axis a range setter has just set.
AxisJustSet ==
  CASE last.op = "set_xrange" -> xrange
    [] last.op = "set_yrange" -> yrange
    [] last.op = "set_zrange" -> zrange

\* C10: after a range setter the axis descriptor is "[]" when both bounds
\* are automatic, "[low:high]" with no "*" when both are fixed, and with
\* exactly one "*", in the place of the automatic bound, when one is fixed.
C10_FormatRange ==
  (last.op \in {"set_xrange", "set_yrange", "set_zrange"})
  => LET min == last.args.min
         max == last.args.max
         parts == SplitOn(AxisJustSet, ":")
     IN  IF min = NaN /\ max = NaN
         THEN AxisJustSet = <<"[", "]">>
         ELSE /\ Len(parts) = 2
              /\ parts[1] = <<"[">> \o BoundText(min)
              /\ parts[2] = BoundText(max) \o <<"]">>
              /\ Stars(AxisJustSet) =
                   Cardinality({b \in {"min", "max"} : last.args[b] = NaN})

\* C10, its case: set_zrange(NaN, 1234567) has recorded "[*:1.23457e+06]".
C10_Witness ==
  /\ last.op = "set_zrange"
  /\ last.args.min = NaN
  /\ last.args.max = D(1234567)
  /\ zrange = <<"[", "*", ":", "1", ".", "2", "3", "4", "5", "7", "e", "+",
                "0", "6", "]">>


\* The quotes of a text, by position.
QuotesOf(text) == {i \in 1..Len(text) : text[i] = "'"}

\* The argument a command carries between its first and its last quote.
QuotedArgument(text) ==
  LET q == QuotesOf(text)
      first == CHOOSE i \in q : \A j \in q : i <= j
      final == CHOOSE i \in q : \A j \in q : j <= i
  IN  SubSeq(text, first + 1, final - 1)

\* Reading an escaped text back: each doubled quote is one quote.
RECURSIVE Collapse(_)
Collapse(text) ==
  IF text = <<>> THEN <<>>
  ELSE IF Len(text) >= 2 /\ text[1] = "'" /\ text[2] = "'"
       THEN <<"'">> \o Collapse(SubSeq(text, 3, Len(text)))
       ELSE <<text[1]>> \o Collapse(Tail(text))

\* Every maximal run of quotes has an even length.
QuotesInPairs(text) ==
  \A i \in QuotesOf(text) :
    (i = 1 \/ text[i - 1] # "'")
    => LET stop == CHOOSE j \in i..Len(text) :
                     /\ \A k \in i..j : text[k] = "'"
                     /\ (j = Len(text) \/ text[j + 1] # "'")
       IN  (stop - i + 1) % 2 = 0

\* esc is the text with every quote doubled and nothing else changed.
EscapedFrom(esc, text) ==
  /\ Len(esc) = Len(text) + Cardinality(QuotesOf(text))
  /\ QuotesInPairs(esc)
  /\ Collapse(esc) = text
  /\ SelectSeq(esc, LAMBDA c : c # "'") = SelectSeq(text, LAMBDA c : c # "'")

\* C11: the axis labels, the multiplot title and the series label reach
\* gnuplot inside a quoted argument with every quote doubled and no other
\* character changed: the length grows by the number of quotes, quotes come
\* in adjacent pairs only, and collapsing the pairs gives the input back.
C11_EscapeRoundTrip ==
  /\ (last.op \in {"set_xlabel", "set_ylabel"} /\ last.ret = "true")
     => EscapedFrom(QuotedArgument(delivered), last.args.label)
  /\ (last.op = "multiplot" /\ last.ret = "true")
     => EscapedFrom(QuotedArgument(delivered), last.args.title)
  /\ (last.op = "show" /\ last.ret = "true" /\ Len(series) = 1)
     => EscapedFrom(QuotedArgument(delivered), series[1].title)

\* C11, its case: a series labelled 'a' (quotes included) has been shown
\* and its title reached gnuplot as ''a''.
C11_Witness ==
  /\ last.op = "show"
  /\ last.ret = "true"
  /\ Len(series) = 1
  /\ series[1].title = <<"'", "a", "'">>
  /\ QuotedArgument(delivered) = <<"'", "'", "a", "'", "'">>


\* The number a text of digits writes.
RECURSIVE NatOf(_)
NatOf(digits) ==
  IF digits = <<>> THEN 0
  ELSE 10 * NatOf(SubSeq(digits, 1, Len(digits) - 1))
         + (CHOOSE k \in 0..9 : DigitChar(k) = digits[Len(digits)])

RECURSIVE SumOf(_)
SumOf(counts) ==
  IF counts = <<>> THEN 0 ELSE Head(counts) + SumOf(Tail(counts))

\* The least and the greatest of whole values.
Least(values) ==
  CHOOSE m \in {values[k][1] : k \in 1..Len(values)} :
    \A k \in 1..Len(values) : m <= values[k][1]

Greatest(values) ==
  CHOOSE m \in {values[k][1] : k \in 1..Len(values)} :
    \A k \in 1..Len(values) : values[k][1] <= m

\* floor((value - min) / binwidth) with binwidth = (max - min) / nbins, the
\* index nbins counted as nbins - 1.
BinOf(value, values, nbins) ==
  LET q == ((value[1] - Least(values)) * nbins)
             \div (Greatest(values) - Least(values))
  IN  IF q = nbins THEN nbins - 1 ELSE q

\* The step is a histogram call that the 2D/3D check lets through.
HistogramStep ==
  /\ last'.op = "histogram"
  /\ last'.args.nbins >= 1
  /\ last'.args.values # <<>>
  /\ \A k \in 1..Len(last'.args.values) : last'.args.values[k][2] = 1
  /\ ~(series # <<>> /\ is_3dplot)

\* C12: a histogram of non-empty values with min < max in nbins >= 1 bins
\* appends one series of exactly nbins rows "centre count"; the count of bin
\* b is the number of values with floor((value - min) / binwidth) = b, the
\* maximum being counted in the last bin; the counts sum to the number of
\* values; the centre of bin b is min + binwidth * (b + 0.5).
C12_HistogramCounts ==
  [][(HistogramStep /\ Least(last'.args.values) < Greatest(last'.args.values))
     => LET values == last'.args.values
            nbins == last'.args.nbins
            rows == DataRows(series'[Len(series')].data_string)
            count(b) == NatOf(Columns(rows[b + 1])[2])
            width == <<Greatest(values) - Least(values), nbins>>
        IN  /\ last'.ret = "void"
            /\ Len(series') = Len(series) + 1
            /\ SubSeq(series', 1, Len(series)) = series
            /\ Len(rows) = nbins
            /\ \A b \in 0..(nbins - 1) :
                 /\ Len(Columns(rows[b + 1])) = 2
                 /\ count(b) = Cardinality({k \in 1..Len(values) :
                                   BinOf(values[k], values, nbins) = b})
                 /\ Columns(rows[b + 1])[1] =
                      FmtDouble(<<2 * nbins * Least(values)
                                    + width[1] * (2 * b + 1), 2 * nbins>>)
            /\ SumOf([b \in 1..nbins |-> count(b - 1)]) = Len(values)
            /\ \A k \in 1..Len(values) :
                 BinOf(values[k], values, nbins) \in 0..(nbins - 1)]_vars

\* C12, its case: the histogram of 1, 2, 3, 4, 5 in 2 bins has recorded the
\* rows "2 2" and "4 3".
C12_Witness ==
  /\ last.op = "histogram"
  /\ last.ret = "void"
  /\ last.args.values = <<<<1, 1>>, <<2, 1>>, <<3, 1>>, <<4, 1>>, <<5, 1>>>>
  /\ last.args.nbins = 2
  /\ series # <<>>
  /\ series[Len(series)].data_string =
       <<"2", " ", "2", "\n", "4", " ", "3", "\n">>

\* C13, as the specification states it: a histogram of values that are all
\* the same (min = max) is refused for every nbins >= 1, it does not return
\* normally and appends nothing.  The code divides 0 by 0 instead.
C13_ZeroWidthRejected ==
  [][(HistogramStep /\ Least(last'.args.values) = Greatest(last'.args.values))
     => (/\ last'.ret # "void"
         /\ series' = series
         /\ is_3dplot' = is_3dplot)]_vars


\* The destructor has closed the stream or gone further.
InDestructor == running \in {"closed", "slept", "destroyed"}

NthOf(H, k) == CHOOSE h \in H : Cardinality({g \in H : g < h}) = k - 1

\* The lines that hold a plot or splot command.
CommandLines(ls) ==
  {c \in 1..Len(ls) : Len(ls[c]) >= 1 /\ ls[c][1] \in {"plot", "splot"}}

\* The words of the i-th clause of a composite command are those of the
\* series s: its block, descriptor, style word and escaped title.
ClauseOf(words, i, s) ==
  /\ Len(words) = 7
  /\ words[1] = <<"$Datablock">> \o FmtNat(i)
  /\ words[2] = <<"using">>
  /\ words[3] = s.column_range
  /\ words[4] = <<"with">>
  /\ words[5] = <<style_to_str(s.line_style)>>
  /\ words[6] = <<"title">>
  /\ words[7][1] = "'"
  /\ words[7][Len(words[7])] = "'"
  /\ EscapedFrom(SubSeq(words[7], 2, Len(words[7]) - 1), s.title)

\* The text is what show sends for the series ss: the fill style, one block
\* per series in order, then one plot or splot command with one clause per
\* series in order.
ShownAs(text, ss, is3d, xr, yr, zr) ==
  \A ls \in {TextLines(text)} : \A H \in {BlockHeaders(ls)} :
    LET n == Len(ss)
        head == IF is3d THEN <<<<"splot">>, xr, yr, zr>>
                ELSE <<<<"plot">>, xr, yr>>
    IN  /\ ls[1] = <<"set", " ", "style", " ", "fill", " ", "solid", " ", "0.5">>
        /\ Cardinality(H) = n
        /\ \A k \in 1..n : \A h \in {NthOf(H, k)} :
             /\ h > 1
             /\ ls[h] = <<"$Datablock">> \o FmtNat(k - 1)
                          \o <<" ", "<<", " ", "EOD">>
             /\ BlockRows(ls, h) = DataRows(ss[k].data_string)
             /\ k < n => BlockEnd(ls, h) < NthOf(H, k + 1)
        /\ Cardinality(CommandLines(ls)) = 1
        /\ \A c \in CommandLines(ls) :
             /\ c = Len(ls) - 1
             /\ ls[Len(ls)] = <<>>
             /\ c > BlockEnd(ls, NthOf(H, n))
             /\ \A clauses \in {SplitOn(ls[c], ",")} :
                  /\ Len(clauses) = n
                  /\ \A i \in 1..n : \A words \in {Columns(clauses[i])} :
                       IF i = 1
                       THEN /\ SubSeq(words, 1, Len(head)) = head
                            /\ ClauseOf(SubSeq(words, Len(head) + 1,
                                               Len(words)), 0, ss[1])
                       ELSE ClauseOf(words, i - 1, ss[i])

\* C15: a show with n >= 1 series pending sends, in one text, the fill
\* style, then the n blocks $Datablock0 .. $Datablock(n-1) in the order the
\* series were added, then one command, splot in 3D and plot otherwise,
\* whose i-th clause names block i with that series' descriptor, style word
\* and escaped label; an add-series call that returns with non-empty data
\* has appended exactly one series at the end and moved none.
C15_ShowOrder ==
  [][/\ (last'.op = "show" /\ series # <<>> /\ connection = "FILE")
        => (/\ last'.ret = "true"
            /\ stream_buf' = <<>>
            /\ ShownAs(delivered', series, is_3dplot, xrange, yrange, zrange))
     /\ (last'.op \in AddOps /\ FirstOf(last') # <<>> /\ last'.ret = "void")
        => (/\ Len(series') = Len(series) + 1
            /\ SubSeq(series', 1, Len(series)) = series
            /\ added'[Len(added')].op = last'.op)]_vars

\* C15, its case: two different 3D series have been shown with one splot.
C15_Witness ==
  /\ last.op = "show"
  /\ last.ret = "true"
  /\ last.args.n = 2
  /\ Len(series) = 2
  /\ series[1] # series[2]
  /\ is_3dplot
  /\ zrange # AutoRange
  /\ ShownAs(delivered, series, TRUE, xrange, yrange, zrange)


\* C16: show resets exactly when its text was sent and call_reset is true.
\* On an absent connection it returns false and leaves the pending list, the
\* ranges and the mode alone even with call_reset = true; with call_reset =
\* false on a live connection it returns true and leaves them alone, so that
\* the show that follows sends the same text again.
C16_ResetIffSent ==
  [][/\ (last'.op = "show" /\ series # <<>>)
        => /\ last'.ret = IF connection = "nullptr" THEN "false" ELSE "true"
           /\ IF connection = "FILE" /\ last'.args.call_reset
              THEN /\ series' = <<>>
                   /\ xrange' = AutoRange
                   /\ yrange' = AutoRange
                   /\ is_3dplot' = FALSE
                   /\ zrange' = zrange
              ELSE UNCHANGED session
           /\ connection = "nullptr" => delivered' = <<>>
     /\ (/\ last.op = "show"
         /\ last.ret = "true"
         /\ last.args.n > 0
         /\ ~last.args.call_reset
         /\ last'.op = "show")
        => (delivered' = delivered /\ delivered # <<>>)]_vars

\* C16, its case: show(true) has failed on an absent connection and the
\* series and the fixed X range are still there.
C16_Witness ==
  /\ last.op = "show"
  /\ last.args.call_reset
  /\ last.args.n > 0
  /\ last.ret = "false"
  /\ connection = "nullptr"
  /\ Len(series) = last.args.n
  /\ xrange # AutoRange


\* Every pending series was added by an operation of the kind the flag says.
FlagMatchesSeries ==
  series # <<>>
  => /\ Len(added) = Len(series)
     /\ \A k \in 1..Len(added) :
          /\ (added[k].op \in AddOps3D) = is_3dplot
          /\ (added[k].op \in AddOps2D) = ~is_3dplot

\* The command word of the text a show has sent.
CommandWord(text) ==
  LET ends == {i \in 1..(Len(text) - 1) : text[i] = "\n"}
  IN  text[(CHOOSE i \in ends : \A j \in ends : j <= i) + 1]

\* C17: in every reachable state with series pending, is_3dplot is the kind
\* of every pending series (all from plot3d or plot_vectors3d when true, all
\* from the 2D operations or histogram when false); hence show says splot
\* only for lists of 3D series and plot only for lists of 2D series.
C17_ModeInvariant ==
  [][/\ FlagMatchesSeries
     /\ FlagMatchesSeries'
     /\ (last'.op = "show" /\ series # <<>> /\ connection = "FILE")
        => \A word \in {CommandWord(delivered')} :
             /\ word \in {"plot", "splot"}
             /\ word = "splot"
                => \A k \in 1..Len(added) : added[k].op \in AddOps3D
             /\ word = "plot"
                => \A k \in 1..Len(added) : added[k].op \in AddOps2D]_vars

\* C17, its case: two 3D series are pending, from plot3d and from
\* plot_vectors3d, and the flag is set; a 2D call has just been refused.
C17_Witness ==
  /\ Len(series) = 2
  /\ is_3dplot
  /\ {added[1].op, added[2].op} = {"plot3d", "plot_vectors3d"}
  /\ last.op \in AddOps2D
  /\ last.ret = "assert"


\* The words of the command line of the text a show has sent.
CommandWords(text) ==
  LET ends == {i \in 1..(Len(text) - 1) : text[i] = "\n"}
      from == (CHOOSE i \in ends : \A j \in ends : j <= i) + 1
  IN  Columns(SubSeq(text, from, Len(text) - 1))

\* The descriptor of the range min..max.
RangeText(min, max) ==
  IF min = NaN /\ max = NaN THEN <<"[", "]">>
  ELSE <<"[">> \o BoundText(min) \o <<":">> \o BoundText(max) \o <<"]">>

\* The step writes nothing and leaves the series and the mode alone.
RangeFrame ==
  /\ delivered' = <<>>
  /\ last'.ret = "void"
  /\ UNCHANGED <<connection, stream_buf, series, added, is_3dplot, running>>

ModeWord(mode) ==
  CASE mode = "MONO" -> <<"mono">>
    [] mode = "ANSI" -> <<"ansi">>
    [] mode = "ANSI256" -> <<"ansi256">>
    [] mode = "ANSIRGB" -> <<"ansirgb">>

\* C19, as the specification states it: the terminal command of
\* redirect_to_dumb carries the width, the height and the mode keyword as
\* three arguments separated by white space, and an output command follows
\* only when the file name is not empty.  The code writes the keyword right
\* after the height.
C19_DumbArguments ==
  (last.op = "redirect_to_dumb" /\ last.ret = "true")
  => \A ls \in {TextLines(delivered)} :
       /\ Columns(ls[1]) =
            <<<<"set">>, <<"terminal">>, <<"dumb">>, <<"size">>,
              FmtNat(last.args.width), FmtNat(last.args.height),
              ModeWord(last.args.mode)>>
       /\ IF last.args.filename = <<>>
          THEN \A k \in 2..Len(ls) : ls[k] = <<>>
          ELSE ls[2] = <<"set", " ", "output", " ", "'">>
                         \o last.args.filename \o <<"'">>

=============================================================================
